---- MODULE Spec2Model ----
(***************************************************************************)
(* Medicaid provider fraud signal detection.                               *)
(*                                                                         *)
(* Two programs of the repository are modelled over the same input:       *)
(*   prog = "full" : main_full.py, run_all_signals followed by main's      *)
(*                   report;                                               *)
(*   prog = "main" : main.py, signal1_excluded_provider,                   *)
(*                   signal2_billing_outlier,                              *)
(*                   signal6_geographic_implausibility and main's merge.   *)
(*                                                                         *)
(* Representation.  An NPI is modelled by its number (astype(str) is       *)
(* injective on NPIs); 0 stands for a missing servicing NPI.  A month is a *)
(* natural number 1..MaxMonth; 0 stands for NaT (a missing or unparseable  *)
(* date after pd.to_datetime(errors='coerce')).  Amounts are whole         *)
(* dollars.  np.percentile(.., 99) and np.median are computed exactly, the *)
(* 99th percentile in hundredths (suffix _x100) and the median in halves   *)
(* (suffix _x2), so estimated_overpayment_usd is kept in hundredths too.   *)
(*                                                                         *)
(* main_full.py:154 calls leie_record['REINDATE'].isna() on the value read *)
(* from a row Series.  That value is a pandas scalar (Timestamp or NaT),   *)
(* which has no isna method: with a frame built by load_leie the call      *)
(* raises AttributeError (isna = "raises") and run_all_signals ends there. *)
(* The model keeps as well the outcome in which the call answers the null  *)
(* test the expression is written for (isna = "null"), so that lines       *)
(* 157-192, which only run past line 154, are part of the model.           *)
(***************************************************************************)
EXTENDS Integers, Sequences, FiniteSets, TLC

VARIABLES
    prog,              \* which program runs: "full" or "main"
    isna,              \* what the scalar .isna() call at main_full.py:154 does
    leie,              \* the exclusion list (leie_df), a sequence of records
    nppes,             \* the identity directory, NPI -> [taxonomy, state]
    batches,           \* the row groups of the parquet file, in order
    pc,                \* position in the program
    i,                 \* index of the row group the current loop is at
    all_flagged,       \* main_full: all_flagged; main: all_providers
    signal1_count,
    signal2_count,
    signal6_count,
    provider_totals,   \* sequence of [npi, paid, claims, beneficiaries, taxonomy, state]
    hh_monthly,        \* sequence of [npi, month, claims, beneficiaries, codes]
    signal1_results,   \* main.py: the list each detector returns
    signal2_results,
    signal6_results,
    report             \* the report main builds; <<>> until it is built

vars == <<prog, isna, leie, nppes, batches, pc, i, all_flagged, signal1_count,
          signal2_count, signal6_count, provider_totals, hh_monthly,
          signal1_results, signal2_results, signal6_results, report>>

input == <<prog, isna, leie, nppes, batches>>

-----------------------------------------------------------------------------
(* Bounds of the model *)

MaxMonth == 4
MaxRows == 3
MaxPeers == 11

(* Program constants *)

NaT == 0
NoNpi == 0
MinPeerGroup == 10
PercentileRank == 99
HighRatio == 5
MinMonthlyClaims == 100
ScannedFactor == 100

home_health_codes ==
    {"G0151", "G0152", "G0153", "G0154", "G0155", "G0156", "G0157", "G0158",
     "G0159", "G0160", "G0161", "G0162", "G0299", "G0300", "S9122", "S9123",
     "S9124", "T1019", "T1020", "T1021", "T1022"}

-----------------------------------------------------------------------------
(* Sequence helpers *)

RECURSIVE SumSeq(_)
SumSeq(s) == IF s = <<>> THEN 0 ELSE Head(s) + SumSeq(Tail(s))

RECURSIVE Flatten(_)
Flatten(ss) == IF ss = <<>> THEN <<>> ELSE Head(ss) \o Flatten(Tail(ss))

Range(s) == {s[k] : k \in DOMAIN s}

\* the values of s in order of first appearance (Series.unique, dict keys)
RECURSIVE Unique(_)
Unique(s) ==
    IF s = <<>> THEN <<>>
    ELSE LET u == Unique(SubSeq(s, 1, Len(s) - 1))
         IN  IF s[Len(s)] \in Range(u) THEN u ELSE Append(u, s[Len(s)])

\* the elements of the finite set of integers S in increasing order
RECURSIVE SortedSeq(_)
SortedSeq(S) ==
    IF S = {} THEN <<>>
    ELSE LET m == CHOOSE x \in S : \A y \in S : x <= y
         IN  <<m>> \o SortedSeq(S \ {m})

\* position of the first record of s whose npi is n, 0 when there is none
IndexOf(s, n) ==
    IF \E k \in DOMAIN s : s[k].npi = n
    THEN CHOOSE k \in DOMAIN s : s[k].npi = n /\ \A j \in 1..(k - 1) : s[j].npi # n
    ELSE 0

-----------------------------------------------------------------------------
(* Records shared by the detectors *)

NppesGet(np, npi, field) == IF npi \in DOMAIN np THEN np[npi][field] ELSE ""

\* the dict literal each detector stores in all_flagged on first sight
NewFlagged(npi, taxonomy, state, paid, claims, beneficiaries) ==
    [npi |-> npi,
     taxonomy_code |-> taxonomy,
     state |-> state,
     total_paid_all_time |-> paid,
     total_claims_all_time |-> claims,
     total_unique_beneficiaries_all_time |-> beneficiaries,
     signals |-> <<>>,
     estimated_overpayment_x100 |-> 0,
     statute_reference |-> ""]

Paid(rows) == SumSeq([k \in DOMAIN rows |-> rows[k].paid])
Claims(rows) == SumSeq([k \in DOMAIN rows |-> rows[k].claims])
Beneficiaries(rows) == SumSeq([k \in DOMAIN rows |-> rows[k].beneficiaries])

-----------------------------------------------------------------------------
(* Signal 1, main_full.py: excluded provider still billing *)

excluded_npis(l) == {l[k].NPI : k \in DOMAIN l}

\* leie_df[leie_df['NPI'] == npi].iloc[0]
leie_record(l, npi) ==
    l[CHOOSE k \in DOMAIN l : l[k].NPI = npi /\ \A j \in 1..(k - 1) : l[j].NPI # npi]

\* the date comparison of the mask; every comparison with NaT is False
Violates(d, rec) ==
    /\ d # NaT
    /\ rec.EXCLDATE # NaT
    /\ d > rec.EXCLDATE
    /\ (rec.REINDATE = NaT \/ d < rec.REINDATE)

\* provider_claims[mask]: the rows of the batch billed by npi that violate rec
violations(batch, npi, rec) ==
    SelectSeq(batch, LAMBDA r : r.billing = npi /\ Violates(r.month, rec))

ExcludedSignal(rec, total_paid, count) ==
    [signal_type |-> "excluded_provider",
     severity |-> "critical",
     evidence |-> [exclusion_date |-> rec.EXCLDATE,
                   exclusion_type |-> rec.EXCLTYPE,
                   total_paid_after_exclusion |-> total_paid,
                   claim_count |-> count]]

\* "if sig not in all_flagged[npi]['signals']"
Signal1IsNew(sig, signals) == sig \notin Range(signals)

\* the body of "for npi in df['BILLING_PROVIDER_NPI_NUM'].unique()" for one npi;
\* st is [flagged, count], the values of all_flagged and signal1_count
Signal1Npi(st, npi, batch, l, np) ==
    IF npi \notin excluded_npis(l) THEN st
    ELSE
    LET rec == leie_record(l, npi)
        v == violations(batch, npi, rec)
        total_paid == Paid(v)
        f0 == IF IndexOf(st.flagged, npi) = 0
              THEN Append(st.flagged,
                          NewFlagged(npi, NppesGet(np, npi, "taxonomy"),
                                     NppesGet(np, npi, "state"), 0, 0, 0))
              ELSE st.flagged
        k == IndexOf(f0, npi)
        sig == ExcludedSignal(rec, total_paid, Len(v))
        new == Signal1IsNew(sig, f0[k].signals)
        f1 == [f0 EXCEPT
                 ![k].total_paid_all_time = @ + total_paid,
                 ![k].total_claims_all_time = @ + Len(v),
                 ![k].signals = IF new THEN Append(@, sig) ELSE @,
                 ![k].estimated_overpayment_x100 =
                     IF new THEN @ + 100 * total_paid ELSE @]
    IN  IF v = <<>> THEN st
        ELSE [flagged |-> f1, count |-> IF new THEN st.count + 1 ELSE st.count]

BillingNpis(batch) == Unique([k \in DOMAIN batch |-> batch[k].billing])

RECURSIVE Signal1Npis(_, _, _, _, _)
Signal1Npis(st, npis, batch, l, np) ==
    IF npis = <<>> THEN st
    ELSE Signal1Npis(Signal1Npi(st, Head(npis), batch, l, np), Tail(npis), batch, l, np)

\* one iteration of the row-group loop of Signal 1
Signal1Batch(st, batch, l, np) == Signal1Npis(st, BillingNpis(batch), batch, l, np)

\* line 154 reads leie_record['REINDATE'], a scalar taken from the row Series, and
\* calls .isna() on it; the call is made as soon as the batch holds an excluded
\* billing NPI, whether or not any of its rows violates
Signal1CallsIsna(batch, l) == \E k \in DOMAIN batch : batch[k].billing \in excluded_npis(l)

-----------------------------------------------------------------------------
(* Signal 2, main_full.py: billing volume outlier by peer group *)

\* df.groupby('BILLING_PROVIDER_NPI_NUM'): the billing NPIs of the batch, sorted
GroupKeys(batch) == SortedSeq({batch[k].billing : k \in DOMAIN batch})

RowsOf(batch, npi) == SelectSeq(batch, LAMBDA r : r.billing = npi)

\* provider_totals[npi_str] of the defaultdict, created on first access
Signal2Npi(totals, npi, batch, np) ==
    LET t0 == IF IndexOf(totals, npi) = 0
              THEN Append(totals, [npi |-> npi, paid |-> 0, claims |-> 0,
                                   beneficiaries |-> 0, taxonomy |-> "", state |-> ""])
              ELSE totals
        k == IndexOf(t0, npi)
        rows == RowsOf(batch, npi)
    IN  [t0 EXCEPT
           ![k].paid = @ + Paid(rows),
           ![k].claims = @ + Claims(rows),
           ![k].beneficiaries = @ + Beneficiaries(rows),
           ![k].taxonomy = IF npi \in DOMAIN np THEN np[npi].taxonomy ELSE @,
           ![k].state = IF npi \in DOMAIN np THEN np[npi].state ELSE @]

RECURSIVE Signal2Npis(_, _, _, _)
Signal2Npis(totals, npis, batch, np) ==
    IF npis = <<>> THEN totals
    ELSE Signal2Npis(Signal2Npi(totals, Head(npis), batch, np), Tail(npis), batch, np)

\* one iteration of the row-group loop of Signal 2
Signal2Batch(totals, batch, np) == Signal2Npis(totals, GroupKeys(batch), batch, np)

\* key = (data['taxonomy'], data['state'])
PeerKey(t) == <<t.taxonomy, t.state>>

\* the keys of peer_groups in insertion order
PeerKeys(totals) == Unique([k \in DOMAIN totals |-> PeerKey(totals[k])])

\* peer_groups[key]: the (npi, paid) members, kept here as the totals records
Members(totals, key) == SelectSeq(totals, LAMBDA t : PeerKey(t) = key)

RECURSIVE Insert(_, _)
Insert(sorted, x) ==
    IF sorted = <<>> THEN <<x>>
    ELSE IF x <= Head(sorted) THEN <<x>> \o sorted
    ELSE <<Head(sorted)>> \o Insert(Tail(sorted), x)

RECURSIVE Sort(_)
Sort(s) == IF s = <<>> THEN <<>> ELSE Insert(Sort(Tail(s)), Head(s))

\* np.percentile(amounts, q), linear interpolation, times 100: the virtual index
\* is q/100 * (n - 1), between order statistics lo and lo + 1 (1-based here)
Percentile_x100(amounts, q) ==
    LET a == Sort(amounts)
        n == Len(a)
        pos == q * (n - 1)
        lo == (pos \div 100) + 1
        frac == pos % 100
    IN  IF frac = 0 THEN 100 * a[lo]
        ELSE 100 * a[lo] + frac * (a[lo + 1] - a[lo])

\* np.median(amounts), times 2
Median_x2(amounts) ==
    LET a == Sort(amounts)
        n == Len(a)
    IN  IF n % 2 = 1 THEN 2 * a[(n + 1) \div 2]
        ELSE a[n \div 2] + a[(n \div 2) + 1]

\* "if len(members) < 10: continue"
Eligible(members) == ~(Len(members) < MinPeerGroup)

\* a slip of ">" to ">="
IsOutlierOrEqual(paid, p99_x100) == 100 * paid >= p99_x100

\* "if paid > p99"
IsOutlier(paid, p99_x100) == 100 * paid > p99_x100

\* a slip of "ratio > 5" to "ratio >= 5"
OutlierSeverityFrom5(paid, median_x2) ==
    IF median_x2 > 0 /\ 2 * paid >= HighRatio * median_x2 THEN "high" ELSE "medium"

\* ratio = paid / median if median > 0 else 0; severity = 'high' if ratio > 5
OutlierSeverity(paid, median_x2) ==
    IF median_x2 > 0 /\ 2 * paid > HighRatio * median_x2 THEN "high" ELSE "medium"

OutlierSignal(paid, p99_x100, median_x2) ==
    [signal_type |-> "billing_outlier",
     severity |-> OutlierSeverity(paid, median_x2),
     evidence |-> [peer_median_x2 |-> median_x2,
                   peer_99th_percentile_x100 |-> p99_x100,
                   ratio_to_median |-> IF median_x2 > 0 THEN <<2 * paid, median_x2>>
                                       ELSE <<0, 1>>]]

\* max(0, paid - p99), in hundredths
Excess_x100(paid, p99_x100) ==
    IF 100 * paid - p99_x100 > 0 THEN 100 * paid - p99_x100 ELSE 0

\* a slip of "+=" to "="
SetOutlierEstimate(est_x100, paid, p99_x100) == Excess_x100(paid, p99_x100)

\* "all_flagged[npi]['estimated_overpayment_usd'] += max(0, paid - p99)"
AddOutlierEstimate(est_x100, paid, p99_x100) == est_x100 + Excess_x100(paid, p99_x100)

\* the body of "for npi, paid in members" for one member t of the group key
Signal2Member(st, t, key, p99_x100, median_x2) ==
    IF ~IsOutlier(t.paid, p99_x100) THEN st
    ELSE
    LET f0 == IF IndexOf(st.flagged, t.npi) = 0
              THEN Append(st.flagged,
                          NewFlagged(t.npi, key[1], key[2], t.paid, t.claims,
                                     t.beneficiaries))
              ELSE st.flagged
        k == IndexOf(f0, t.npi)
        f1 == [f0 EXCEPT
                 ![k].signals = Append(@, OutlierSignal(t.paid, p99_x100, median_x2)),
                 ![k].estimated_overpayment_x100 =
                     AddOutlierEstimate(@, t.paid, p99_x100)]
    IN  [flagged |-> f1, count |-> st.count + 1]

RECURSIVE Signal2Members(_, _, _, _, _)
Signal2Members(st, ms, key, p99_x100, median_x2) ==
    IF ms = <<>> THEN st
    ELSE Signal2Members(Signal2Member(st, Head(ms), key, p99_x100, median_x2),
                        Tail(ms), key, p99_x100, median_x2)

\* the body of "for (taxonomy, state), members in peer_groups.items()"
Signal2Group(st, totals, key) ==
    LET members == Members(totals, key)
        amounts == [k \in DOMAIN members |-> members[k].paid]
    IN  IF ~Eligible(members) THEN st
        ELSE Signal2Members(st, members, key, Percentile_x100(amounts, PercentileRank),
                            Median_x2(amounts))

RECURSIVE Signal2Groups(_, _, _)
Signal2Groups(st, totals, keys) ==
    IF keys = <<>> THEN st
    ELSE Signal2Groups(Signal2Group(st, totals, Head(keys)), totals, Tail(keys))

\* lines 225-271: group by (taxonomy, state) and flag; count starts at 0
Signal2Flag(flagged, totals) ==
    Signal2Groups([flagged |-> flagged, count |-> 0], totals, PeerKeys(totals))

-----------------------------------------------------------------------------
(* Signal 6, main_full.py: home-health beneficiary ratio by provider and month *)

\* position of the bucket of key (npi, month) in hh_monthly, 0 when there is none
BucketOf(hh, npi, month) ==
    IF \E k \in DOMAIN hh : hh[k].npi = npi /\ hh[k].month = month
    THEN CHOOSE k \in DOMAIN hh : hh[k].npi = npi /\ hh[k].month = month
    ELSE 0

\* the body of "for _, row in hh.iterrows()": the key holds CLAIM_FROM_MONTH as read,
\* a missing month included
Signal6Row(hh, row) ==
    LET h0 == IF BucketOf(hh, row.billing, row.month) = 0
              THEN Append(hh, [npi |-> row.billing, month |-> row.month, claims |-> 0,
                               beneficiaries |-> 0, codes |-> {}])
              ELSE hh
        k == BucketOf(h0, row.billing, row.month)
    IN  [h0 EXCEPT ![k].claims = @ + row.claims,
                   ![k].beneficiaries = @ + row.beneficiaries,
                   ![k].codes = @ \cup {row.hcpcs}]

RECURSIVE Signal6Rows(_, _)
Signal6Rows(hh, rows) ==
    IF rows = <<>> THEN hh ELSE Signal6Rows(Signal6Row(hh, Head(rows)), Tail(rows))

\* df[df['HCPCS_CODE'].isin(home_health_codes)]
HomeHealthRows(batch) == SelectSeq(batch, LAMBDA r : r.hcpcs \in home_health_codes)

\* one iteration of the row-group loop of Signal 6
Signal6Batch(hh, batch) == Signal6Rows(hh, HomeHealthRows(batch))

\* a slip of "> 100" to ">= 100"
ImplausibleFrom100(claims, beneficiaries) ==
    /\ claims >= MinMonthlyClaims
    /\ 10 * beneficiaries < claims

\* "if data['claims'] > 100" and "if ratio < 0.1", ratio = beneficiaries / claims
Implausible(claims, beneficiaries) ==
    /\ claims > MinMonthlyClaims
    /\ 10 * beneficiaries < claims

GeographicSignal(b) ==
    [signal_type |-> "geographic_implausibility",
     severity |-> "medium",
     evidence |-> [hcpcs_codes |-> b.codes,
                   month |-> b.month,
                   total_claims |-> b.claims,
                   unique_beneficiaries |-> b.beneficiaries,
                   beneficiary_ratio |-> <<b.beneficiaries, b.claims>>]]

\* the body of "for (npi, month), data in hh_monthly.items()" for one bucket
Signal6Bucket(st, b, np) ==
    IF ~Implausible(b.claims, b.beneficiaries) THEN st
    ELSE
    LET f0 == IF IndexOf(st.flagged, b.npi) = 0
              THEN Append(st.flagged,
                          NewFlagged(b.npi, NppesGet(np, b.npi, "taxonomy"),
                                     NppesGet(np, b.npi, "state"), 0, 0, 0))
              ELSE st.flagged
        k == IndexOf(f0, b.npi)
    IN  [flagged |-> [f0 EXCEPT ![k].signals = Append(@, GeographicSignal(b))],
         count |-> st.count + 1]

RECURSIVE Signal6Buckets(_, _, _)
Signal6Buckets(st, hh, np) ==
    IF hh = <<>> THEN st
    ELSE Signal6Buckets(Signal6Bucket(st, Head(hh), np), Tail(hh), np)

\* lines 302-334; count starts at 0
Signal6Flag(flagged, hh, np) == Signal6Buckets([flagged |-> flagged, count |-> 0], hh, np)

-----------------------------------------------------------------------------
(* FCA relevance and the report, main_full.py *)

statute_map(signal_type) ==
    CASE signal_type = "excluded_provider" -> "3729(a)(1)(A)"
      [] signal_type = "billing_outlier" -> "3729(a)(1)(A)"
      [] signal_type = "rapid_escalation" -> "3729(a)(1)(A)"
      [] signal_type = "workforce_impossibility" -> "3729(a)(1)(B)"
      [] signal_type = "shared_official" -> "3729(a)(1)(C)"
      [] signal_type = "geographic_implausibility" -> "3729(a)(1)(G)"
      [] OTHER -> "3729(a)(1)(A)"

\* the type of the last signal instead of the first
last_signal(provider) ==
    IF provider.signals # <<>> THEN provider.signals[Len(provider.signals)].signal_type
    ELSE "unknown"

\* primary_signal = provider['signals'][0]['signal_type'] if provider['signals'] else 'unknown'
primary_signal(provider) ==
    IF provider.signals # <<>> THEN provider.signals[1].signal_type ELSE "unknown"

AddFca(flagged) ==
    [k \in DOMAIN flagged |->
        [flagged[k] EXCEPT !.statute_reference = statute_map(primary_signal(flagged[k]))]]

SignalCounts(c1, c2, c6) ==
    [excluded_provider |-> c1,
     billing_outlier |-> c2,
     rapid_escalation |-> 0,
     workforce_impossibility |-> 0,
     shared_official |-> 0,
     geographic_implausibility |-> c6]

\* the dict run_all_signals returns, turned into main's report
FullReport(flagged, totals, c1, c2, c6) ==
    [total_providers_scanned |-> Len(totals),
     total_providers_flagged |-> Len(flagged),
     signal_counts |-> SignalCounts(c1, c2, c6),
     flagged_providers |-> flagged]

-----------------------------------------------------------------------------
(* main.py: the three detectors, each returning a list of provider records *)

\* a numeric key the detector's dict literal does not have
Absent == -1

\* the rows of df.merge(leie_df, left_on=col, right_on='NPI') that pass the mask,
\* for one row of the batch: one merged row for each exclusion record of the NPI
MaskedMergeRow(r, npi, l) ==
    LET m == SelectSeq(l, LAMBDA rec : rec.NPI = npi /\ Violates(r.month, rec))
    IN  [k \in DOMAIN m |-> [row |-> r, rec |-> m[k]]]

MaskedMerge(batch, l, col) ==
    Flatten([k \in DOMAIN batch |-> MaskedMergeRow(batch[k], batch[k][col], l)])

\* what one row group appends to violations: billing first, then servicing
BatchViolations(batch, l) ==
    MaskedMerge(batch, l, "billing") \o MaskedMerge(batch, l, "servicing")

\* pd.concat(violations)
all_violations(bs, l) == Flatten([b \in DOMAIN bs |-> BatchViolations(bs[b], l)])

\* one entry of results, for the group of merged rows whose NPI is npi
Signal1Result(group, npi) ==
    LET total_paid == SumSeq([k \in DOMAIN group |-> group[k].row.paid])
    IN  [NewFlagged(npi, "", "", total_paid, Absent, Absent) EXCEPT
           !.signals = <<ExcludedSignal(group[1].rec, total_paid, Len(group))>>,
           !.estimated_overpayment_x100 = 100 * total_paid,
           !.statute_reference = "3729(a)(1)(A)"]

\* signal1_excluded_provider: all_violations.groupby('NPI'), keys sorted
signal1_excluded_provider(bs, l) ==
    LET av == all_violations(bs, l)
        npis == SortedSeq({av[k].rec.NPI : k \in DOMAIN av})
    IN  [n \in DOMAIN npis |->
            Signal1Result(SelectSeq(av, LAMBDA p : p.rec.NPI = npis[n]), npis[n])]

RECURSIVE MainTotals(_, _)
MainTotals(totals, bs) ==
    IF bs = <<>> THEN totals
    ELSE MainTotals(Signal2Batch(totals, Head(bs), <<>>), Tail(bs))

\* "if data['paid'] > p99" over the one global population
MainIsOutlier(paid, p99_x100) == 100 * paid > p99_x100

Signal2Result(t, p99_x100, median_x2) ==
    [NewFlagged(t.npi, "", "", t.paid, t.claims, t.beneficiaries) EXCEPT
       !.signals = <<OutlierSignal(t.paid, p99_x100, median_x2)>>,
       !.estimated_overpayment_x100 = Excess_x100(t.paid, p99_x100),
       !.statute_reference = "3729(a)(1)(A)"]

\* signal2_billing_outlier: global percentiles over provider_totals, no size test
signal2_billing_outlier(bs) ==
    LET totals == MainTotals(<<>>, bs)
        amounts == [k \in DOMAIN totals |-> totals[k].paid]
        p99_x100 == Percentile_x100(amounts, PercentileRank)
        median_x2 == Median_x2(amounts)
        out == SelectSeq(totals, LAMBDA t : MainIsOutlier(t.paid, p99_x100))
    IN  [k \in DOMAIN out |-> Signal2Result(out[k], p99_x100, median_x2)]

\* all_hh with CLAIM_FROM_MONTH parsed; groupby drops the rows whose month is NaT
all_hh(bs) == SelectSeq(Flatten([b \in DOMAIN bs |-> HomeHealthRows(bs[b])]),
                        LAMBDA r : r.month # NaT)

\* one row of monthly: the sums over the home-health rows of (npi, month)
MonthlyRow(hh, npi, month) ==
    LET g == SelectSeq(hh, LAMBDA r : r.billing = npi /\ r.month = month)
    IN  [npi |-> npi, month |-> month, claims |-> Claims(g),
         beneficiaries |-> Beneficiaries(g), codes |-> {g[k].hcpcs : k \in DOMAIN g}]

\* monthly: groupby(['BILLING_PROVIDER_NPI_NUM', 'CLAIM_FROM_MONTH']), keys sorted
monthly(hh) ==
    LET npis == SortedSeq({hh[k].billing : k \in DOMAIN hh})
        months(npi) == SortedSeq({hh[k].month : k \in {j \in DOMAIN hh : hh[j].billing = npi}})
    IN  Flatten([n \in DOMAIN npis |->
                    [m \in DOMAIN months(npis[n]) |->
                        MonthlyRow(hh, npis[n], months(npis[n])[m])]])

Signal6Result(b) ==
    [NewFlagged(b.npi, "", "XX", Absent, Absent, Absent) EXCEPT
       !.signals = <<GeographicSignal(b)>>,
       !.statute_reference = "3729(a)(1)(G)"]

\* signal6_geographic_implausibility
signal6_geographic_implausibility(bs) ==
    LET implausible == SelectSeq(monthly(all_hh(bs)),
                                 LAMBDA b : Implausible(b.claims, b.beneficiaries))
    IN  [k \in DOMAIN implausible |-> Signal6Result(implausible[k])]

\* a merge that forgets the "if npi not in all_providers" test
MergeProviderAppend(providers, provider) == Append(providers, provider)

\* the body of "for provider in signal1_results + signal2_results + signal6_results"
MergeProvider(providers, provider) ==
    LET k == IndexOf(providers, provider.npi)
    IN  IF k = 0 THEN Append(providers, provider)
        ELSE [providers EXCEPT
                ![k].signals = @ \o provider.signals,
                ![k].estimated_overpayment_x100 = @ + provider.estimated_overpayment_x100]

RECURSIVE MergeProviders(_, _)
MergeProviders(providers, results) ==
    IF results = <<>> THEN providers
    ELSE MergeProviders(MergeProvider(providers, Head(results)), Tail(results))

\* 'total_providers_scanned': len(signal2_results) * 100  # Approximate
MainScanned(s2) == Len(s2) * ScannedFactor

MainReport(providers, s1, s2, s6) ==
    [total_providers_scanned |-> MainScanned(s2),
     total_providers_flagged |-> Len(providers),
     signal_counts |-> SignalCounts(Len(s1), Len(s2), Len(s6)),
     flagged_providers |-> providers]

-----------------------------------------------------------------------------
(* Inputs *)

Row(b, s, m, h, p, c, u) ==
    [billing |-> b, servicing |-> s, month |-> m, hcpcs |-> h,
     paid |-> p, claims |-> c, beneficiaries |-> u]

Excl(npi, from, to) ==
    [NPI |-> npi, EXCLTYPE |-> "1128a1", EXCLDATE |-> from, REINDATE |-> to]

Months == 0..MaxMonth

\* every way of cutting the rows into consecutive non-empty row groups
RECURSIVE Chunkings(_)
Chunkings(rows) ==
    IF rows = <<>> THEN {<<>>}
    ELSE UNION {{<<SubSeq(rows, 1, k)>> \o rest :
                    rest \in Chunkings(SubSeq(rows, k + 1, Len(rows)))} :
                k \in 1..Len(rows)}

\* the program that runs, with the outcome of the scalar .isna() call
Runs == {<<"full", "raises">>, <<"full", "null">>, <<"main", "raises">>}
RunsNoLeie == {<<"full", "raises">>, <<"main", "raises">>}

\* one claim row; one or two exclusion records of NPI 1, any dates, NaT included
ExclusionInputs ==
    {[leie |-> l, nppes |-> <<>>, batches |-> <<<<r>>>>] :
        l \in {<<Excl(1, a, b)>> : a \in Months, b \in Months}
              \cup {<<Excl(1, 1, 2), Excl(1, a, b)>> : a \in Months, b \in Months},
        r \in {Row(b, s, m, "99213", 500, 1, 1) :
                  b \in {1, 2}, s \in {NoNpi, 1, 2}, m \in Months}}

\* up to MaxRows rows of NPI 1, excluded from month 1 on, cut into row groups
ChunkRows == {Row(1, NoNpi, m, "99213", p, 1, 1) : m \in {1, 2}, p \in {1, 2}}

ChunkInputs ==
    {[leie |-> <<Excl(1, 1, NaT)>>, nppes |-> <<>>, batches |-> bs] :
        bs \in UNION {Chunkings(rows) :
                        rows \in UNION {[1..n -> ChunkRows] : n \in 1..MaxRows}}}

\* NPI 1 and NPI 2, then n peers 11, 12, ... of taxonomy "T" in state "S"; all
\* peers are paid 1 but the last
PeerNppes(n, id1) ==
    [npi \in {1} \cup {10 + k : k \in 1..n} |->
        IF npi = 1 THEN id1 ELSE [taxonomy |-> "T", state |-> "S"]]

PeerBatch(n, last) ==
    [k \in 1..n |-> Row(10 + k, NoNpi, 2, "99213", IF k = n THEN last ELSE 1, 1, 1)]

PeerInputs ==
    {[leie |-> l, nppes |-> PeerNppes(n, id1),
      batches |-> <<<<Row(1, NoNpi, 2, h, p, 101, 5)>>, PeerBatch(n, last)>>] :
        l \in {<<Excl(2, 1, NaT)>>, <<Excl(1, 1, NaT)>>},
        n \in (MinPeerGroup - 2)..MaxPeers,
        id1 \in [taxonomy : {"T", ""}, state : {"S", ""}],
        h \in {"99213", "T1019"},
        p \in {1, 3, 500},
        last \in {1, 3, 500}}

\* one or two home-health or office rows of NPI 1, in one or two row groups
RatioRows ==
    {Row(1, NoNpi, m, h, 1, cu[1], cu[2]) :
        m \in {NaT, 1, 2}, h \in {"T1019", "99213"},
        cu \in {<<100, 9>>, <<101, 9>>, <<101, 10>>, <<101, 11>>, <<50, 4>>, <<51, 5>>}}

RatioInputs ==
    {[leie |-> <<>>, nppes |-> <<>>, batches |-> bs] :
        bs \in {<<<<r>>>> : r \in RatioRows}
               \cup {<<<<r1, r2>>>> : r1 \in RatioRows, r2 \in RatioRows}
               \cup {<<<<r1>>, <<r2>>>> : r1 \in RatioRows, r2 \in RatioRows}}

\* NPI 1 paid p among MinPeerGroup peers of its own taxonomy and state, each paid
\* m: the group median is m, and p is above the 99th percentile
SeverityBatch(m) ==
    [k \in 1..MinPeerGroup |-> Row(10 + k, NoNpi, 2, "99213", m, 1, 1)]

SeverityInputs ==
    {[leie |-> <<>>, nppes |-> PeerNppes(MinPeerGroup, [taxonomy |-> "T", state |-> "S"]),
      batches |-> <<<<Row(1, NoNpi, 2, "99213", p, 1, 1)>>, SeverityBatch(m)>>] :
        p \in {5, 6, 10, 11}, m \in {0, 1, 2}}

\* NPI 1 and NPI 2 with or without a taxonomy and a state in the identity
\* directory, NPI 3 not in the directory at all
FallbackInputs ==
    {[leie |-> <<>>, nppes |-> (1 :> id1) @@ (2 :> id2),
      batches |-> <<<<Row(1, NoNpi, 2, "99213", 1, 1, 1), Row(2, NoNpi, 2, "99213", 1, 1, 1),
                      Row(3, NoNpi, 2, "99213", p, 1, 1)>>>>] :
        id1 \in [taxonomy : {"T", ""}, state : {"S", ""}],
        id2 \in [taxonomy : {"T", ""}, state : {"S", ""}],
        p \in {1, 500}}

NoReport ==
    [total_providers_scanned |-> 0,
     total_providers_flagged |-> 0,
     signal_counts |-> SignalCounts(0, 0, 0),
     flagged_providers |-> <<>>]

Start(run, in) ==
    /\ prog = run[1]
    /\ isna = run[2]
    /\ leie = in.leie
    /\ nppes = in.nppes
    /\ batches = in.batches
    /\ pc = "signal1"
    /\ i = 1
    /\ all_flagged = <<>>
    /\ signal1_count = 0
    /\ signal2_count = 0
    /\ signal6_count = 0
    /\ provider_totals = <<>>
    /\ hh_monthly = <<>>
    /\ signal1_results = <<>>
    /\ signal2_results = <<>>
    /\ signal6_results = <<>>
    /\ report = NoReport

Init ==
    \/ \E run \in Runs : \E in \in ExclusionInputs \cup ChunkInputs \cup PeerInputs :
          Start(run, in)
    \/ \E run \in RunsNoLeie :
          \E in \in RatioInputs \cup SeverityInputs \cup FallbackInputs : Start(run, in)

-----------------------------------------------------------------------------
(* main_full.py: run_all_signals and main *)

LastGroup == i = Len(batches)

\* Signal 1 on row group i
Signal1Step ==
    /\ prog = "full" /\ pc = "signal1"
    /\ ~(isna = "raises" /\ Signal1CallsIsna(batches[i], leie))
    /\ LET st == Signal1Batch([flagged |-> all_flagged, count |-> signal1_count],
                              batches[i], leie, nppes)
       IN  /\ all_flagged' = st.flagged
           /\ signal1_count' = st.count
    /\ pc' = IF LastGroup THEN "signal2" ELSE pc
    /\ i' = IF LastGroup THEN 1 ELSE i + 1
    /\ UNCHANGED <<input, signal2_count, signal6_count, provider_totals, hh_monthly,
                   signal1_results, signal2_results, signal6_results, report>>

\* Signal 1 on row group i when the scalar has no isna method: AttributeError
\* leaves run_all_signals and main, and no report is written
Signal1Raise ==
    /\ prog = "full" /\ pc = "signal1"
    /\ isna = "raises" /\ Signal1CallsIsna(batches[i], leie)
    /\ pc' = "raised"
    /\ UNCHANGED <<input, i, all_flagged, signal1_count, signal2_count, signal6_count,
                   provider_totals, hh_monthly, signal1_results, signal2_results,
                   signal6_results, report>>

\* Signal 2, first loop: the totals of row group i
Signal2Step ==
    /\ prog = "full" /\ pc = "signal2"
    /\ provider_totals' = Signal2Batch(provider_totals, batches[i], nppes)
    /\ pc' = IF LastGroup THEN "peer_groups" ELSE pc
    /\ i' = IF LastGroup THEN 1 ELSE i + 1
    /\ UNCHANGED <<input, all_flagged, signal1_count, signal2_count, signal6_count,
                   hh_monthly, signal1_results, signal2_results, signal6_results, report>>

\* Signal 2, second pass over the completed totals
PeerGroupOutliers ==
    /\ prog = "full" /\ pc = "peer_groups"
    /\ LET st == Signal2Flag(all_flagged, provider_totals)
       IN  /\ all_flagged' = st.flagged
           /\ signal2_count' = st.count
    /\ pc' = "signal6"
    /\ UNCHANGED <<input, i, signal1_count, signal6_count, provider_totals, hh_monthly,
                   signal1_results, signal2_results, signal6_results, report>>

\* Signal 6, the home-health rows of row group i
Signal6Step ==
    /\ prog = "full" /\ pc = "signal6"
    /\ hh_monthly' = Signal6Batch(hh_monthly, batches[i])
    /\ pc' = IF LastGroup THEN "hh_flag" ELSE pc
    /\ i' = IF LastGroup THEN 1 ELSE i + 1
    /\ UNCHANGED <<input, all_flagged, signal1_count, signal2_count, signal6_count,
                   provider_totals, signal1_results, signal2_results, signal6_results,
                   report>>

\* Signal 6, the pass over the completed monthly buckets
HomeHealthFlag ==
    /\ prog = "full" /\ pc = "hh_flag"
    /\ LET st == Signal6Flag(all_flagged, hh_monthly, nppes)
       IN  /\ all_flagged' = st.flagged
           /\ signal6_count' = st.count
    /\ pc' = "fca"
    /\ UNCHANGED <<input, i, signal1_count, signal2_count, provider_totals, hh_monthly,
                   signal1_results, signal2_results, signal6_results, report>>

\* FCA relevance, the return of run_all_signals and the report main builds from it
FullReportStep ==
    /\ prog = "full" /\ pc = "fca"
    /\ all_flagged' = AddFca(all_flagged)
    /\ report' = FullReport(all_flagged', provider_totals, signal1_count,
                            signal2_count, signal6_count)
    /\ pc' = "done"
    /\ UNCHANGED <<input, i, signal1_count, signal2_count, signal6_count,
                   provider_totals, hh_monthly, signal1_results, signal2_results,
                   signal6_results>>

-----------------------------------------------------------------------------
(* main.py: main *)

MainSignal1 ==
    /\ prog = "main" /\ pc = "signal1"
    /\ signal1_results' = signal1_excluded_provider(batches, leie)
    /\ pc' = "signal2"
    /\ UNCHANGED <<input, i, all_flagged, signal1_count, signal2_count, signal6_count,
                   provider_totals, hh_monthly, signal2_results, signal6_results, report>>

MainSignal2 ==
    /\ prog = "main" /\ pc = "signal2"
    /\ signal2_results' = signal2_billing_outlier(batches)
    /\ pc' = "signal6"
    /\ UNCHANGED <<input, i, all_flagged, signal1_count, signal2_count, signal6_count,
                   provider_totals, hh_monthly, signal1_results, signal6_results, report>>

MainSignal6 ==
    /\ prog = "main" /\ pc = "signal6"
    /\ signal6_results' = signal6_geographic_implausibility(batches)
    /\ pc' = "merge"
    /\ UNCHANGED <<input, i, all_flagged, signal1_count, signal2_count, signal6_count,
                   provider_totals, hh_monthly, signal1_results, signal2_results, report>>

\* "Combine all flagged providers"
MainMerge ==
    /\ prog = "main" /\ pc = "merge"
    /\ all_flagged' = MergeProviders(<<>>, signal1_results \o signal2_results
                                            \o signal6_results)
    /\ pc' = "report"
    /\ UNCHANGED <<input, i, signal1_count, signal2_count, signal6_count,
                   provider_totals, hh_monthly, signal1_results, signal2_results,
                   signal6_results, report>>

\* "Build report"
MainReportStep ==
    /\ prog = "main" /\ pc = "report"
    /\ report' = MainReport(all_flagged, signal1_results, signal2_results,
                            signal6_results)
    /\ pc' = "done"
    /\ UNCHANGED <<input, i, all_flagged, signal1_count, signal2_count, signal6_count,
                   provider_totals, hh_monthly, signal1_results, signal2_results,
                   signal6_results>>

Next ==
    \/ Signal1Step
    \/ Signal1Raise
    \/ Signal2Step
    \/ PeerGroupOutliers
    \/ Signal6Step
    \/ HomeHealthFlag
    \/ FullReportStep
    \/ MainSignal1
    \/ MainSignal2
    \/ MainSignal6
    \/ MainMerge
    \/ MainReportStep

Spec == Init /\ [][Next]_vars

-----------------------------------------------------------------------------
(* run_all_signals as one function of the row groups, when no call raises *)

RECURSIVE Signal1All(_, _, _, _)
Signal1All(st, bs, l, np) ==
    IF bs = <<>> THEN st
    ELSE Signal1All(Signal1Batch(st, Head(bs), l, np), Tail(bs), l, np)

RECURSIVE Signal2All(_, _, _)
Signal2All(totals, bs, np) ==
    IF bs = <<>> THEN totals
    ELSE Signal2All(Signal2Batch(totals, Head(bs), np), Tail(bs), np)

RECURSIVE Signal6All(_, _)
Signal6All(hh, bs) ==
    IF bs = <<>> THEN hh ELSE Signal6All(Signal6Batch(hh, Head(bs)), Tail(bs))

run_all_signals(bs, l, np) ==
    LET s1 == Signal1All([flagged |-> <<>>, count |-> 0], bs, l, np)
        totals == Signal2All(<<>>, bs, np)
        s2 == Signal2Flag(s1.flagged, totals)
        s6 == Signal6Flag(s2.flagged, Signal6All(<<>>, bs), np)
    IN  FullReport(AddFca(s6.flagged), totals, s1.count, s2.count, s6.count)

-----------------------------------------------------------------------------
(* What the claims speak of *)

AllRows == Flatten(batches)

Done == pc = "done"

\* the record of npi in a list of provider records
Provider(flagged, npi) == flagged[IndexOf(flagged, npi)]

Flagged(flagged, npi) == IndexOf(flagged, npi) # 0

SignalsOf(provider, type) == SelectSeq(provider.signals, LAMBDA g : g.signal_type = type)

\* the interval rule as the specification states it, on dates that are present
InsideInterval(d, rec) ==
    /\ rec.EXCLDATE < d
    /\ (rec.REINDATE = NaT \/ d < rec.REINDATE)

\* the rows of the data set that npi billed or serviced and whose date lies
\* inside one of npi's exclusion intervals
ViolatingRows(npi) ==
    SelectSeq(AllRows,
              LAMBDA r : /\ (r.billing = npi \/ r.servicing = npi)
                         /\ r.month # NaT
                         /\ \E k \in DOMAIN leie :
                               /\ leie[k].NPI = npi
                               /\ leie[k].EXCLDATE # NaT
                               /\ InsideInterval(r.month, leie[k]))

\* what the exclusion detector has produced so far
Signal1Output == IF prog = "full" THEN all_flagged ELSE signal1_results

-----------------------------------------------------------------------------
(* C1: however the rows are cut into row groups, run_all_signals returns   *)
(* the flagged entities, signals, estimates, totals and signal counts that *)
(* it returns for the same rows in one row group.                          *)

SameResult(r1, r2) ==
    /\ Range(r1.flagged_providers) = Range(r2.flagged_providers)
    /\ r1.signal_counts = r2.signal_counts
    /\ r1.total_providers_scanned = r2.total_providers_scanned

-----------------------------------------------------------------------------
(* C2: a claim row triggers the exclusion detector for an exclusion record *)
(* iff its date is strictly after EXCLDATE and, when REINDATE is present,  *)
(* strictly before it: not on the start date, not on the reinstatement     *)
(* date, and always strictly between them.                                 *)

OneRow == Len(AllRows) = 1 /\ Len(leie) = 1

\* the detector has met the one row of an excluded billing provider
TestApplied ==
    /\ OneRow
    /\ AllRows[1].billing = leie[1].NPI
    /\ AllRows[1].month # NaT /\ leie[1].EXCLDATE # NaT
    /\ pc # "signal1"

Triggered == Flagged(Signal1Output, leie[1].NPI)

C2_IntervalRule ==
    TestApplied => (Triggered <=> InsideInterval(AllRows[1].month, leie[1]))

\* the same rule wherever the test returned an answer
C2_IntervalRuleWhereAnswered ==
    (TestApplied /\ pc # "raised") =>
        (Triggered <=> InsideInterval(AllRows[1].month, leie[1]))

C2_Witness ==
    /\ TestApplied /\ pc # "raised" /\ Triggered
    /\ leie[1].REINDATE # NaT
    /\ AllRows[1].month = leie[1].EXCLDATE + 1

-----------------------------------------------------------------------------
(* C3: one exclusion record (entity 1, a start date, no end date) and one  *)
(* claim row billed by 1 after that date with paid amount 500 give a       *)
(* report with exactly one flagged entity, 1, carrying exactly one signal, *)
(* excluded_provider of severity critical, and an estimated overpayment of *)
(* 500.                                                                    *)

C3_Input ==
    /\ OneRow
    /\ leie[1].NPI = 1 /\ leie[1].EXCLDATE # NaT /\ leie[1].REINDATE = NaT
    /\ AllRows[1].billing = 1 /\ AllRows[1].servicing = NoNpi
    /\ AllRows[1].month > leie[1].EXCLDATE
    /\ AllRows[1].paid = 500

C3_Report ==
    /\ report.total_providers_flagged = 1
    /\ Len(report.flagged_providers) = 1
    /\ LET p == report.flagged_providers[1]
       IN  /\ p.npi = 1
           /\ Len(p.signals) = 1
           /\ p.signals[1].signal_type = "excluded_provider"
           /\ p.signals[1].severity = "critical"
           /\ p.estimated_overpayment_x100 = 100 * 500

\* the run on that input ends with that report
C3_EndToEnd ==
    (C3_Input /\ pc \in {"done", "raised"}) => (Done /\ C3_Report)

\* the same, of the runs that reach their report
C3_EndToEndWhenReported == (C3_Input /\ Done) => C3_Report

C3_Witness == C3_Input /\ Done /\ C3_Report

-----------------------------------------------------------------------------
(* C4: in run_all_signals a flagged entity never holds two                 *)
(* excluded_provider signals for the same exclusion event, whatever row    *)
(* groups have been processed.                                             *)

SameEvent(g, h) ==
    /\ g.evidence.exclusion_date = h.evidence.exclusion_date
    /\ g.evidence.exclusion_type = h.evidence.exclusion_type

-----------------------------------------------------------------------------
(* C5: once the exclusion detector is through, each entity it flagged has  *)
(* an overpayment estimate, and a total_paid_after_exclusion, equal to the *)
(* sum of TOTAL_PAID over its rows that violate, each row counted once.    *)

PaidAfterExclusion(provider) ==
    LET ex == SignalsOf(provider, "excluded_provider")
    IN  SumSeq([k \in DOMAIN ex |-> ex[k].evidence.total_paid_after_exclusion])

C5_PaidAfterExclusion ==
    pc = "signal2" =>
        \A k \in DOMAIN Signal1Output :
            LET p == Signal1Output[k]
            IN  /\ PaidAfterExclusion(p) = Paid(ViolatingRows(p.npi))
                /\ p.estimated_overpayment_x100 = 100 * Paid(ViolatingRows(p.npi))

-----------------------------------------------------------------------------
(* C6: in the report every flagged entity's estimated overpayment is the   *)
(* sum of what the exclusion detector recorded as paid after exclusion and *)
(* of max(0, paid - p99) for its one billing_outlier signal, if any; the   *)
(* home-health detector adds nothing.                                      *)

EntityRows(npi) == SelectSeq(AllRows, LAMBDA r : r.billing = npi)

OutlierExcess(provider) ==
    LET out == SignalsOf(provider, "billing_outlier")
    IN  SumSeq([k \in DOMAIN out |->
                  LET d == 100 * Paid(EntityRows(provider.npi))
                             - out[k].evidence.peer_99th_percentile_x100
                  IN  IF d > 0 THEN d ELSE 0])

C6_EstimateIsSum ==
    Done =>
        \A k \in DOMAIN report.flagged_providers :
            LET p == report.flagged_providers[k]
            IN  /\ Len(SignalsOf(p, "billing_outlier")) <= 1
                /\ p.estimated_overpayment_x100 =
                       100 * PaidAfterExclusion(p) + OutlierExcess(p)

C6_Witness ==
    /\ Done /\ prog = "full"
    /\ \E k \in DOMAIN report.flagged_providers :
          LET p == report.flagged_providers[k]
          IN  /\ PaidAfterExclusion(p) > 0
              /\ OutlierExcess(p) > 0
              /\ SignalsOf(p, "geographic_implausibility") # <<>>

-----------------------------------------------------------------------------
(* Peer groups, as the input determines them *)

Population == {AllRows[k].billing : k \in DOMAIN AllRows}

\* main_full.py groups by the (taxonomy, state) of the identity directory;
\* main.py has the one population of all billing providers
KeyOf(npi) ==
    IF prog = "full"
    THEN <<NppesGet(nppes, npi, "taxonomy"), NppesGet(nppes, npi, "state")>>
    ELSE <<"", "">>

PeerGroup(npi) == {m \in Population : KeyOf(m) = KeyOf(npi)}

GroupAmounts(npi) ==
    LET ms == SortedSeq(PeerGroup(npi))
    IN  [k \in DOMAIN ms |-> Paid(EntityRows(ms[k]))]

GroupP99_x100(npi) == Percentile_x100(GroupAmounts(npi), PercentileRank)

HasSignal(npi, type) ==
    /\ Flagged(report.flagged_providers, npi)
    /\ SignalsOf(Provider(report.flagged_providers, npi), type) # <<>>

-----------------------------------------------------------------------------
(* C7: no member of a peer group of fewer than 10 entities carries a       *)
(* billing_outlier signal, whatever it was paid.                           *)

C7_SmallGroupsSilent ==
    Done =>
        \A npi \in Population :
            HasSignal(npi, "billing_outlier") =>
                Cardinality(PeerGroup(npi)) >= MinPeerGroup

\* the same of run_all_signals alone
C7_SmallGroupsSilentFull == prog = "full" => C7_SmallGroupsSilent

C7_WitnessFull ==
    /\ Done /\ prog = "full"
    /\ \E npi \in Population :
          /\ Cardinality(PeerGroup(npi)) = MinPeerGroup - 1
          /\ 100 * Paid(EntityRows(npi)) > GroupP99_x100(npi)
          /\ ~HasSignal(npi, "billing_outlier")

-----------------------------------------------------------------------------
(* C8: a member of a peer group of at least 10 entities carries a          *)
(* billing_outlier signal iff its paid amount is strictly greater than the *)
(* group's 99th percentile; one paid exactly the percentile does not.      *)

C8_StrictlyAboveP99 ==
    Done =>
        \A npi \in Population :
            Cardinality(PeerGroup(npi)) >= MinPeerGroup =>
                (HasSignal(npi, "billing_outlier")
                    <=> 100 * Paid(EntityRows(npi)) > GroupP99_x100(npi))

C8_Witness ==
    /\ Done /\ prog = "full"
    /\ \E npi \in Population :
          /\ Cardinality(PeerGroup(npi)) >= MinPeerGroup
          /\ 100 * Paid(EntityRows(npi)) = GroupP99_x100(npi)
          /\ ~HasSignal(npi, "billing_outlier")

-----------------------------------------------------------------------------
(* C9: an (entity, calendar month) pair carries a geographic_implausibility*)
(* signal iff its home-health rows, summed over all row groups, have more  *)
(* than 100 claims and fewer beneficiaries than a tenth of the claims.     *)

HomeHealthOf(npi, month) ==
    SelectSeq(AllRows, LAMBDA r : /\ r.billing = npi /\ r.month = month
                                  /\ r.hcpcs \in home_health_codes)

HasMonthSignal(npi, month) ==
    /\ Flagged(report.flagged_providers, npi)
    /\ \E k \in DOMAIN Provider(report.flagged_providers, npi).signals :
          LET g == Provider(report.flagged_providers, npi).signals[k]
          IN  g.signal_type = "geographic_implausibility" /\ g.evidence.month = month

C9_RatioRule ==
    Done =>
        \A npi \in Population : \A month \in 1..MaxMonth :
            LET hh == HomeHealthOf(npi, month)
            IN  HasMonthSignal(npi, month)
                    <=> (Claims(hh) > 100 /\ 10 * Beneficiaries(hh) < Claims(hh))

\* 50 and 51 claims of one month arrive in two row groups, 9 beneficiaries in all
C9_Witness ==
    /\ Done /\ Len(batches) = 2
    /\ \E npi \in Population : \E month \in 1..MaxMonth :
          /\ Claims(HomeHealthOf(npi, month)) = 101
          /\ Beneficiaries(HomeHealthOf(npi, month)) = 9
          /\ HasMonthSignal(npi, month)

-----------------------------------------------------------------------------
(* C10: the report's total_providers_scanned is the number of distinct     *)
(* billing entities of the processed row groups, and its                   *)
(* total_providers_flagged the number of flagged entities.                 *)

C10_ReportCounts ==
    Done =>
        /\ report.total_providers_scanned = Cardinality(Population)
        /\ report.total_providers_flagged
              = Cardinality({report.flagged_providers[k].npi :
                                k \in DOMAIN report.flagged_providers})

\* the same of main_full.py alone
C10_ReportCountsFull == prog = "full" => C10_ReportCounts

-----------------------------------------------------------------------------
(* C11: whatever has run so far, no entity id occurs twice among the       *)
(* flagged providers and every flagged provider has at least one signal;   *)
(* the report lists exactly those providers.                               *)

Kinds(provider) == {provider.signals[k].signal_type : k \in DOMAIN provider.signals}

UniqueIds(flagged) ==
    \A a, b \in DOMAIN flagged : flagged[a].npi = flagged[b].npi => a = b

C11_UniqueNonEmpty ==
    /\ UniqueIds(all_flagged)
    /\ \A k \in DOMAIN all_flagged : all_flagged[k].signals # <<>>
    /\ Done => report.flagged_providers = all_flagged

\* an entity that each of the three detectors of main.py reported
C11_Witness ==
    /\ Done /\ prog = "main"
    /\ \E k \in DOMAIN report.flagged_providers :
          Kinds(report.flagged_providers[k])
              = {"excluded_provider", "billing_outlier", "geographic_implausibility"}

-----------------------------------------------------------------------------
(* C12: once the exclusion detector is through, every entity that billed   *)
(* or serviced a row dated inside any one of its exclusion intervals, the  *)
(* first or a later one, carries an excluded_provider signal.              *)

ExcludedEntities == {leie[k].NPI : k \in DOMAIN leie}

HasExcludedSignal(npi) ==
    /\ Flagged(Signal1Output, npi)
    /\ SignalsOf(Provider(Signal1Output, npi), "excluded_provider") # <<>>

C12_EveryIntervalBothRoles ==
    pc \notin {"signal1", "raised"} =>
        \A npi \in ExcludedEntities : ViolatingRows(npi) # <<>> => HasExcludedSignal(npi)

\* the same of main.py alone
C12_EveryIntervalBothRolesMain == prog = "main" => C12_EveryIntervalBothRoles

\* main.py flags an entity that only serviced the row, inside its second interval
C12_WitnessMain ==
    /\ prog = "main" /\ Done /\ Len(AllRows) = 1 /\ Len(leie) = 2
    /\ AllRows[1].billing # 1 /\ AllRows[1].servicing = 1
    /\ ~InsideInterval(AllRows[1].month, leie[1])
    /\ HasExcludedSignal(1)

-----------------------------------------------------------------------------
(* C13: in the report a billing_outlier signal is of severity high iff the *)
(* entity's paid amount is more than 5 times the median of its peer group, *)
(* and medium otherwise, a median of 0 giving medium; an excluded_provider *)
(* signal is always critical and a geographic_implausibility signal always *)
(* medium.                                                                 *)

GroupMedian_x2(npi) == Median_x2(GroupAmounts(npi))

ExpectedSeverity(npi, type) ==
    CASE type = "excluded_provider" -> "critical"
      [] type = "geographic_implausibility" -> "medium"
      [] OTHER -> IF /\ GroupMedian_x2(npi) > 0
                     /\ 2 * Paid(EntityRows(npi)) > 5 * GroupMedian_x2(npi)
                  THEN "high" ELSE "medium"

C13_Severity ==
    Done =>
        \A k \in DOMAIN report.flagged_providers :
            LET p == report.flagged_providers[k]
            IN  \A j \in DOMAIN p.signals :
                    p.signals[j].severity = ExpectedSeverity(p.npi, p.signals[j].signal_type)

\* an outlier of a group whose median is 0
C13_Witness ==
    /\ Done
    /\ \E npi \in Population :
          /\ HasSignal(npi, "billing_outlier")
          /\ GroupMedian_x2(npi) = 0
          /\ Paid(EntityRows(npi)) > 0
          /\ SignalsOf(Provider(report.flagged_providers, npi),
                       "billing_outlier")[1].severity = "medium"

-----------------------------------------------------------------------------
(* C14: a row without a service-period date never gives its entity an      *)
(* excluded_provider signal, and is in no (entity, month) bucket of the    *)
(* home-health detector, so that no geographic_implausibility signal rests *)
(* on it.                                                                  *)

\* the rows of npi, billed or serviced, that have a date
DatedRows(npi) ==
    SelectSeq(AllRows, LAMBDA r : (r.billing = npi \/ r.servicing = npi) /\ r.month # NaT)

\* the first half: whoever carries an excluded_provider signal has a dated row
C14_NoExclusionWithoutDate ==
    \A k \in DOMAIN Signal1Output :
        SignalsOf(Signal1Output[k], "excluded_provider") # <<>>
            => DatedRows(Signal1Output[k].npi) # <<>>

C14_NoExclusionWitness ==
    /\ pc = "signal2" /\ OneRow
    /\ AllRows[1].billing = leie[1].NPI /\ AllRows[1].month = NaT
    /\ leie[1].EXCLDATE # NaT /\ leie[1].REINDATE = NaT
    /\ Signal1Output = <<>>

\* the second half: no bucket and no signal for a missing month
NoUndatedBucket ==
    /\ \A k \in DOMAIN hh_monthly : hh_monthly[k].month # NaT
    /\ \A k \in DOMAIN all_flagged :
          LET geo == SignalsOf(all_flagged[k], "geographic_implausibility")
          IN  \A j \in DOMAIN geo : geo[j].evidence.month # NaT

C14_MissingDateIgnored == C14_NoExclusionWithoutDate /\ NoUndatedBucket

\* the same of main.py alone
C14_MissingDateIgnoredMain == prog = "main" => C14_MissingDateIgnored

C14_WitnessMain ==
    /\ prog = "main" /\ Done
    /\ \E k \in DOMAIN AllRows :
          /\ AllRows[k].month = NaT /\ AllRows[k].hcpcs \in home_health_codes
          /\ Implausible(AllRows[k].claims, AllRows[k].beneficiaries)
    /\ report.flagged_providers = <<>>

-----------------------------------------------------------------------------
(* C15: when run_all_signals has its provider totals and partitions them   *)
(* into peer groups, all entities that lack a taxonomy or a state are      *)
(* members of one and the same group, and every entity is in some group.   *)

TotalsComplete == prog = "full" /\ pc \in {"peer_groups", "signal6", "hh_flag", "fca", "done"}

MissingIdentity(t) == t.taxonomy = "" \/ t.state = ""

\* the group the partition puts t in
GroupOf(t) == Range(Members(provider_totals, PeerKey(t)))

C15_NoneLeftOut ==
    TotalsComplete =>
        /\ {provider_totals[k].npi : k \in DOMAIN provider_totals} = Population
        /\ \A k \in DOMAIN provider_totals :
              \E key \in Range(PeerKeys(provider_totals)) :
                  provider_totals[k] \in Range(Members(provider_totals, key))

C15_SingleFallbackGroup ==
    TotalsComplete =>
        /\ C15_NoneLeftOut
        /\ \A a, b \in DOMAIN provider_totals :
              (MissingIdentity(provider_totals[a]) /\ MissingIdentity(provider_totals[b]))
                  => provider_totals[b] \in GroupOf(provider_totals[a])

-----------------------------------------------------------------------------
(* C16: every flagged entity run_all_signals returns has all-time totals   *)
(* of paid amount, claims and beneficiaries equal to the sums over all     *)
(* rows the entity billed, whichever detector created its record.          *)

TotalsOfAllRows(p) ==
    /\ p.total_paid_all_time = Paid(EntityRows(p.npi))
    /\ p.total_claims_all_time = Claims(EntityRows(p.npi))
    /\ p.total_unique_beneficiaries_all_time = Beneficiaries(EntityRows(p.npi))

C16_AllTimeTotals ==
    (prog = "full" /\ Done) =>
        \A k \in DOMAIN report.flagged_providers :
            TotalsOfAllRows(report.flagged_providers[k])

\* the same of the records the outlier detector created
C16_AllTimeTotalsOutlierFirst ==
    (prog = "full" /\ Done) =>
        \A k \in DOMAIN report.flagged_providers :
            report.flagged_providers[k].signals[1].signal_type = "billing_outlier"
                => TotalsOfAllRows(report.flagged_providers[k])

C16_WitnessOutlierFirst ==
    /\ prog = "full" /\ Done
    /\ \E k \in DOMAIN report.flagged_providers :
          /\ report.flagged_providers[k].signals[1].signal_type = "billing_outlier"
          /\ Len(report.flagged_providers[k].signals) = 2
          /\ report.flagged_providers[k].total_claims_all_time > 1

-----------------------------------------------------------------------------
(* C17: in the report every entity's signals are in detector order,        *)
(* excluded_provider before billing_outlier before                         *)
(* geographic_implausibility; the signals of each kind are exactly those   *)
(* the detector of that kind yields when run alone, so that none is lost   *)
(* to a signal of another kind; and the statute reference is that of the   *)
(* earliest detector that flagged the entity.                              *)

Rank(type) ==
    CASE type = "excluded_provider" -> 1
      [] type = "billing_outlier" -> 2
      [] type = "geographic_implausibility" -> 3

InDetectorOrder(provider) ==
    \A a, b \in DOMAIN provider.signals :
        a < b => Rank(provider.signals[a].signal_type) <= Rank(provider.signals[b].signal_type)

\* what the detector of one kind flags when the flagged map starts empty
DetectorAlone(type) ==
    IF prog = "full"
    THEN CASE type = "excluded_provider" ->
                 Signal1All([flagged |-> <<>>, count |-> 0], batches, leie, nppes).flagged
           [] type = "billing_outlier" ->
                 Signal2Flag(<<>>, Signal2All(<<>>, batches, nppes)).flagged
           [] type = "geographic_implausibility" ->
                 Signal6Flag(<<>>, Signal6All(<<>>, batches), nppes).flagged
    ELSE CASE type = "excluded_provider" -> MergeProviders(<<>>, signal1_results)
           [] type = "billing_outlier" -> MergeProviders(<<>>, signal2_results)
           [] type = "geographic_implausibility" -> MergeProviders(<<>>, signal6_results)

SignalsIn(flagged, npi) == IF Flagged(flagged, npi) THEN Provider(flagged, npi).signals ELSE <<>>

SignalKinds == {"excluded_provider", "billing_outlier", "geographic_implausibility"}

KindsAlone(npi) == {t \in SignalKinds : SignalsIn(DetectorAlone(t), npi) # <<>>}

NoneSuppressed(npi) ==
    \A t \in SignalKinds :
        SelectSeq(SignalsIn(report.flagged_providers, npi), LAMBDA g : g.signal_type = t)
            = SignalsIn(DetectorAlone(t), npi)

EarliestKind(npi) == CHOOSE t \in KindsAlone(npi) : \A u \in KindsAlone(npi) : Rank(t) <= Rank(u)

C17_DetectorOrder ==
    Done =>
        /\ \A npi \in Population \cup ExcludedEntities : NoneSuppressed(npi)
        /\ \A k \in DOMAIN report.flagged_providers :
              LET p == report.flagged_providers[k]
              IN  /\ InDetectorOrder(p)
                  /\ p.statute_reference = statute_map(EarliestKind(p.npi))

\* an entity of run_all_signals that all three detectors flagged
C17_Witness ==
    /\ Done /\ prog = "full"
    /\ \E k \in DOMAIN report.flagged_providers :
          /\ Kinds(report.flagged_providers[k]) = SignalKinds
          /\ Len(report.flagged_providers[k].signals) = 3

====
